---- MODULE Spec2Model ----
(***************************************************************************)
(* Startup / shutdown orchestration of apisix-ingress-controller's         *)
(* "ingress" sub command (cmd/ingress/ingress.go).                          *)
(*                                                                         *)
(* The main flow is the Run closure of NewIngressCommand, one action per   *)
(* statement, in the order given by MainFlow.  Three goroutines run beside *)
(* it: the core informer factory start, the delayed custom-resource        *)
(* factory start, and the API server.  Time is a discrete clock counting   *)
(* seconds since process start.                                            *)
(***************************************************************************)
EXTENDS Integers, Sequences, FiniteSets, TLC

VARIABLES
    mainPc,       \* statement the main flow executes next
    proc,         \* "running" | "exited"
    exitCode,     \* -1 while running, then the process exit code
    stderr,       \* diagnostics written by dief, in order
    registered,   \* resource kinds whose controller (event handler) is wired
    stop,         \* the stop channel: "nil" | "open" | "closed"
    coreG,        \* goroutine of line 138: "none" | "spawned" | "done"
    coreF,        \* CoreSharedInformerFactory: "idle" | "delivering" | "stopped"
    crG,          \* goroutine of lines 149-152: "none" | "sleeping" | "awake" | "done"
    crF,          \* SharedInformerFactory: "idle" | "delivering" | "stopped"
    wakeAt,       \* clock value at which time.Sleep of line 150 may return
    srv,          \* API server: "none" | "created" | "spawned" | "serving" |
                  \*   "errBind" | "errCrash" (Run returned an error) | "done" (nil)
    clock,        \* seconds since process start
    notified,     \* signals relayed to sigCh by signal.Notify
    sigCh,        \* the buffered signal channel of waitForSignal (capacity 1)
    sigCount,     \* signals the OS has delivered so far
    lastSig,      \* the last signal the OS delivered ("-" when none)
    delivered,    \* kinds for which an informer event has been delivered
    unhandled,    \* kinds for which an event was delivered with no handler wired
    recvEarly,    \* the main flow received its signal before the sleep had elapsed
    closedEarly,  \* stop was closed before the sleep had elapsed
    sig,          \* the signal waitForSignal took from sigCh ("-" when none yet)
    crStartStop   \* state of stop when SharedInformerFactory.Start was invoked

vars == <<mainPc, proc, exitCode, stderr, registered, stop,
          coreG, coreF, crG, crF, wakeAt, srv, clock, notified, sigCh,
          sigCount, lastSig, delivered, unhandled, recvEarly, closedEarly,
          sig, crStartStop>>

procVars == <<proc, exitCode, stderr>>
coreVars == <<coreG, coreF>>
crVars   == <<crG, crF, wakeAt, crStartStop>>
sigVars  == <<notified, sigCh, sigCount, lastSig>>
evVars   == <<delivered, unhandled>>
histVars == <<recvEarly, closedEarly, sig>>

(***************************************************************************)
(* Bounds of the model.                                                    *)
(***************************************************************************)
MaxClock   == 2     \* latest clock value at which time still advances freely
MaxSignals == 1     \* signals the OS delivers in one execution
MaxEvents  == 1     \* distinct kinds for which an event is delivered

(***************************************************************************)
(* Program constants.                                                      *)
(***************************************************************************)
Delay    == 10      \* time.Sleep(time.Duration(10) * time.Second)
SigChCap == 1       \* make(chan os.Signal, 1)

CoreKinds == {"Endpoints"}
CrKinds   == {"ApisixRoute", "ApisixUpstream", "ApisixService", "ApisixTLS"}
Kinds     == CoreKinds \cup CrKinds

ConfigPaths == {"", "/path/to/config.json"}

TermSignals == {"SIGINT", "SIGTERM"}
Signals     == TermSignals \cup {"SIGUSR1"}

\* signal.Notify(sigCh): with no signal listed every signal is relayed.
NotifySet_All == Signals

\* signal.Notify(sigCh, syscall.SIGINT, syscall.SIGTERM)
NotifySet == TermSignals

MsgConfig   == "failed to initialize configuration: %s"
MsgLogging  == "failed to initialize logging: %s"
MsgShowCfg  == "failed to show configuration: %s"
MsgInformer == "failed to initialize kube informers: %s"
MsgNewSrv   == "failed to create API Server: %s"
MsgRunSrv   == "failed to launch API Server: %s"
MsgPanic    == "panic: close of closed channel"

(***************************************************************************)
(* The statements of the main flow, in source order.                       *)
(***************************************************************************)
\* The core factory is started before the endpoints controller is wired.
MainFlow_StartBeforeRegister ==
    << "LoadConfig", "NewLogger", "ShowConfig", "InitInformer", "NewController",
       "GoCoreStart", "Endpoint",
       "ApisixRoute", "ApisixUpstream", "ApisixService", "ApisixTLS",
       "GoDelayedStart", "NewServer", "GoServerRun",
       "Notify", "RecvSignal", "CloseStop", "LogExited" >>

\* kube.InitInformer is called only after the watchers were launched.
MainFlow_LateInitInformer ==
    << "LoadConfig", "NewLogger", "ShowConfig", "NewController",
       "Endpoint", "GoCoreStart",
       "ApisixRoute", "ApisixUpstream", "ApisixService", "ApisixTLS",
       "GoDelayedStart", "InitInformer", "NewServer", "GoServerRun",
       "Notify", "RecvSignal", "CloseStop", "LogExited" >>

\* The delayed start of the custom-resource factory is never launched.
MainFlow_NoDelayedStart ==
    << "LoadConfig", "NewLogger", "ShowConfig", "InitInformer", "NewController",
       "Endpoint", "GoCoreStart",
       "ApisixRoute", "ApisixUpstream", "ApisixService", "ApisixTLS",
       "NewServer", "GoServerRun",
       "Notify", "RecvSignal", "CloseStop", "LogExited" >>

\* The delayed custom-resource start is launched before the endpoints
\* controller is wired and the core factory start is launched.
MainFlow_DelayedStartFirst ==
    << "LoadConfig", "NewLogger", "ShowConfig", "InitInformer", "NewController",
       "ApisixRoute", "ApisixUpstream", "ApisixService", "ApisixTLS",
       "GoDelayedStart", "Endpoint", "GoCoreStart",
       "NewServer", "GoServerRun",
       "Notify", "RecvSignal", "CloseStop", "LogExited" >>

\* close(stopCh) is executed before the signal is waited for.
MainFlow_CloseBeforeWait ==
    << "LoadConfig", "NewLogger", "ShowConfig", "InitInformer", "NewController",
       "Endpoint", "GoCoreStart",
       "ApisixRoute", "ApisixUpstream", "ApisixService", "ApisixTLS",
       "GoDelayedStart", "NewServer", "GoServerRun",
       "Notify", "CloseStop", "RecvSignal", "LogExited" >>

MainFlow ==
    << "LoadConfig", "NewLogger", "ShowConfig", "InitInformer", "NewController",
       "Endpoint", "GoCoreStart",
       "ApisixRoute", "ApisixUpstream", "ApisixService", "ApisixTLS",
       "GoDelayedStart", "NewServer", "GoServerRun",
       "Notify", "RecvSignal", "CloseStop", "LogExited" >>

IndexOf(l) == CHOOSE i \in 1..Len(MainFlow) : MainFlow[i] = l

\* The statement after l; "returned" once the Run closure has returned.
After(l) == IF IndexOf(l) = Len(MainFlow) THEN "returned" ELSE MainFlow[IndexOf(l) + 1]

At(l) == proc = "running" /\ mainPc = l

Goto(l) == mainPc' = After(l)

(***************************************************************************)
(* dief: write the diagnostic to stderr and exit with status 1.            *)
(***************************************************************************)
\* The diagnostic is written but the process is not terminated.
Dief_NoExit(template) ==
    /\ stderr' = Append(stderr, template)
    /\ UNCHANGED <<proc, exitCode>>

Dief(template) ==
    /\ stderr' = Append(stderr, template)
    /\ proc' = "exited"
    /\ exitCode' = 1

(***************************************************************************)
(* close(ch): closing a nil or an already closed channel panics.           *)
(***************************************************************************)
\* The channel is left as it is.
Close_Forgotten(ch) == ch

Close(ch) == IF ch = "open" THEN "closed" ELSE "panic"

\* wake-up time of a sleep that starts now, without the delay
WakeTime_NoDelay(now) == now

\* time.Sleep(time.Duration(10) * time.Second) started at `now'
WakeTime(now) == now + Delay

Init ==
    /\ mainPc = MainFlow[1]
    /\ proc = "running"
    /\ exitCode = -1
    /\ stderr = << >>
    /\ registered = {}
    /\ stop = "nil"
    /\ coreG = "none" /\ coreF = "idle"
    /\ crG = "none" /\ crF = "idle"
    /\ wakeAt = -1
    /\ srv = "none"
    /\ clock = 0
    /\ notified = {}
    /\ sigCh = << >>
    /\ sigCount = 0
    /\ lastSig = "-"
    /\ delivered = {}
    /\ unhandled = {}
    /\ recvEarly = FALSE
    /\ closedEarly = FALSE
    /\ sig = "-"
    /\ crStartStop = "-"

(***************************************************************************)
(* Main flow: Initializing.                                                *)
(***************************************************************************)
\* A main-flow statement that either fails fatally (dief) or falls through.
Fallible(l, fails, template) ==
    /\ At(l)
    /\ IF fails
          THEN Dief(template) /\ UNCHANGED mainPc
          ELSE Goto(l) /\ UNCHANGED procVars
    /\ UNCHANGED <<registered, stop, coreVars, crVars, srv, clock,
                   sigVars, evVars, histVars>>

\* if configPath != "" { c, err := config.NewConfigFromFile(configPath); ... }
LoadConfig ==
    \E configPath \in ConfigPaths, err \in BOOLEAN :
        Fallible("LoadConfig", configPath # "" /\ err, MsgConfig)

NewLogger ==
    \E err \in BOOLEAN : Fallible("NewLogger", err, MsgLogging)

ShowConfig ==
    \E err \in BOOLEAN : Fallible("ShowConfig", err, MsgShowCfg)

(***************************************************************************)
(* Main flow: Starting.                                                    *)
(***************************************************************************)
InitInformer ==
    \E err \in BOOLEAN : Fallible("InitInformer", err, MsgInformer)

NewController ==
    /\ At("NewController")
    /\ stop' = "open"
    /\ Goto("NewController")
    /\ UNCHANGED <<procVars, registered, coreVars, crVars, srv, clock,
                   sigVars, evVars, histVars>>

\* c.Endpoint(), c.ApisixRoute(), ...: the controller of kind k is built and
\* its event handler is wired before the call returns.
registerHandler(k) == registered' = registered \cup {k}

Register(l, k) ==
    /\ At(l)
    /\ registerHandler(k)
    /\ Goto(l)
    /\ UNCHANGED <<procVars, stop, coreVars, crVars, srv, clock,
                   sigVars, evVars, histVars>>

Endpoint       == Register("Endpoint", "Endpoints")
ApisixRoute    == Register("ApisixRoute", "ApisixRoute")
ApisixUpstream == Register("ApisixUpstream", "ApisixUpstream")
ApisixService  == Register("ApisixService", "ApisixService")
ApisixTLS      == Register("ApisixTLS", "ApisixTLS")

\* go c.CoreSharedInformerFactory.Start(stop)
GoCoreStart ==
    /\ At("GoCoreStart")
    /\ coreG' = "spawned"
    /\ Goto("GoCoreStart")
    /\ UNCHANGED <<procVars, registered, stop, coreF, crVars, srv,
                   clock, sigVars, evVars, histVars>>

\* go func() { time.Sleep(10s); c.SharedInformerFactory.Start(stop) }()
\* The goroutine is created; its sleep is counted from here.
GoDelayedStart ==
    /\ At("GoDelayedStart")
    /\ crG' = "sleeping"
    /\ wakeAt' = WakeTime(clock)
    /\ Goto("GoDelayedStart")
    /\ UNCHANGED <<procVars, registered, stop, coreVars, crF,
                   crStartStop, srv, clock, sigVars, evVars, histVars>>

\* srv, err := api.NewServer(cfg); if err != nil { dief(...) }
NewServer ==
    \E err \in BOOLEAN :
        /\ At("NewServer")
        /\ IF err
              THEN Dief(MsgNewSrv) /\ UNCHANGED <<mainPc, srv>>
              ELSE Goto("NewServer") /\ srv' = "created" /\ UNCHANGED procVars
        /\ UNCHANGED <<registered, stop, coreVars, crVars, clock,
                       sigVars, evVars, histVars>>

\* srv.Run(stop) is called in line, without `go': the main flow goes on
\* only once Run has returned nil.
GoServerRun_Inline ==
    /\ At("GoServerRun")
    /\ \/ srv = "created" /\ srv' = "spawned" /\ UNCHANGED mainPc
       \/ srv = "done" /\ Goto("GoServerRun") /\ UNCHANGED srv
    /\ UNCHANGED <<procVars, registered, stop, coreVars, crVars,
                   clock, sigVars, evVars, histVars>>

\* go func() { if err := srv.Run(stop); err != nil { dief(...) } }()
GoServerRun ==
    /\ At("GoServerRun")
    /\ srv' = "spawned"
    /\ Goto("GoServerRun")
    /\ UNCHANGED <<procVars, registered, stop, coreVars, crVars,
                   clock, sigVars, evVars, histVars>>

(***************************************************************************)
(* Main flow: waitForSignal (Running, then Draining).                      *)
(***************************************************************************)
\* sigCh := make(chan os.Signal, 1); signal.Notify(sigCh, SIGINT, SIGTERM)
Notify ==
    /\ At("Notify")
    /\ notified' = NotifySet
    /\ sigCh' = << >>
    /\ Goto("Notify")
    /\ UNCHANGED <<procVars, registered, stop, coreVars, crVars, srv,
                   clock, sigCount, lastSig, evVars, histVars>>

\* sig := <-sigCh; log.Infof("signal %d (%s) received", ...)
RecvSignal ==
    /\ At("RecvSignal")
    /\ Len(sigCh) > 0
    /\ sig' = Head(sigCh)
    /\ sigCh' = Tail(sigCh)
    /\ recvEarly' = (clock < wakeAt)
    /\ Goto("RecvSignal")
    /\ UNCHANGED <<procVars, registered, stop, coreVars, crVars, srv,
                   clock, notified, sigCount, lastSig, evVars, closedEarly>>

\* close(stopCh)
CloseStop ==
    /\ At("CloseStop")
    /\ IF Close(stop) = "panic"
          THEN /\ stderr' = Append(stderr, MsgPanic)
               /\ proc' = "exited"
               /\ exitCode' = 2
               /\ UNCHANGED <<mainPc, stop, closedEarly>>
          ELSE /\ stop' = Close(stop)
               /\ closedEarly' = (stop' = "closed" /\ clock < wakeAt)
               /\ Goto("CloseStop")
               /\ UNCHANGED procVars
    /\ UNCHANGED <<registered, coreVars, crVars, srv, clock, sigVars,
                   evVars, recvEarly, sig>>

\* log.Info("apisix ingress controller exited"); the Run closure returns.
LogExited ==
    /\ At("LogExited")
    /\ Goto("LogExited")
    /\ UNCHANGED <<procVars, registered, stop, coreVars, crVars, srv,
                   clock, sigVars, evVars, histVars>>

\* The command's Run has returned: the program's main returns and the
\* process exits with status 0, ending every goroutine.
ProcessExit ==
    /\ proc = "running"
    /\ mainPc = "returned"
    /\ proc' = "exited"
    /\ exitCode' = 0
    /\ UNCHANGED <<mainPc, stderr, registered, stop, coreVars, crVars,
                   srv, clock, sigVars, evVars, histVars>>

(***************************************************************************)
(* Goroutine of line 138: c.CoreSharedInformerFactory.Start(stop).         *)
(***************************************************************************)
\* Start launches the informers of the factory and returns.
CoreStart ==
    /\ proc = "running"
    /\ coreG = "spawned"
    /\ coreG' = "done"
    /\ coreF' = "delivering"
    /\ UNCHANGED <<mainPc, procVars, registered, stop, crVars, srv,
                   clock, sigVars, evVars, histVars>>

\* The informers of the core factory run until stop is closed.
CoreObserveStop ==
    /\ proc = "running"
    /\ coreF = "delivering"
    /\ stop = "closed"
    /\ coreF' = "stopped"
    /\ UNCHANGED <<mainPc, procVars, registered, stop, coreG, crVars,
                   srv, clock, sigVars, evVars, histVars>>

(***************************************************************************)
(* Goroutine of lines 149-152: sleep, then SharedInformerFactory.Start.    *)
(***************************************************************************)
\* time.Sleep returns once at least the duration has passed.
CrWake ==
    /\ proc = "running"
    /\ crG = "sleeping"
    /\ clock >= wakeAt
    /\ crG' = "awake"
    /\ UNCHANGED <<mainPc, procVars, registered, stop, coreVars, crF,
                   wakeAt, crStartStop, srv, clock, sigVars, evVars,
                   histVars>>

\* c.SharedInformerFactory.Start(stop): called whatever the state of stop.
CrStart ==
    /\ proc = "running"
    /\ crG = "awake"
    /\ crG' = "done"
    /\ crF' = "delivering"
    /\ crStartStop' = stop
    /\ UNCHANGED <<mainPc, procVars, registered, stop, coreVars,
                   wakeAt, srv, clock, sigVars, evVars, histVars>>

\* The informers of the custom-resource factory run until stop is closed.
CrObserveStop ==
    /\ proc = "running"
    /\ crF = "delivering"
    /\ stop = "closed"
    /\ crF' = "stopped"
    /\ UNCHANGED <<mainPc, procVars, registered, stop, coreVars, crG,
                   wakeAt, crStartStop, srv, clock, sigVars, evVars,
                   histVars>>

(***************************************************************************)
(* Event delivery by a started informer factory.                           *)
(***************************************************************************)
FactoryOf(k) == IF k \in CoreKinds THEN coreF ELSE crF

\* An event of kind k is handed to the handler wired for k; with no handler
\* wired the event is lost.
DeliverEvent ==
    \E k \in Kinds :
        /\ proc = "running"
        /\ FactoryOf(k) = "delivering"
        /\ k \notin delivered
        /\ Cardinality(delivered) < MaxEvents
        /\ delivered' = delivered \cup {k}
        /\ unhandled' = IF k \in registered THEN unhandled ELSE unhandled \cup {k}
        /\ UNCHANGED <<mainPc, procVars, registered, stop, coreVars,
                       crVars, srv, clock, sigVars, histVars>>

(***************************************************************************)
(* Goroutine of lines 160-164: srv.Run(stop), dief on error.               *)
(***************************************************************************)
\* Run binds the listen address: it serves, or returns an error at once.
SrvRunBegin ==
    \E bound \in BOOLEAN :
        /\ proc = "running"
        /\ srv = "spawned"
        /\ srv' = IF bound THEN "serving" ELSE "errBind"
        /\ UNCHANGED <<mainPc, procVars, registered, stop, coreVars,
                       crVars, clock, sigVars, evVars, histVars>>

\* The server terminates abnormally while serving: Run returns an error.
SrvCrash ==
    /\ proc = "running"
    /\ srv = "serving"
    /\ srv' = "errCrash"
    /\ UNCHANGED <<mainPc, procVars, registered, stop, coreVars,
                   crVars, clock, sigVars, evVars, histVars>>

\* The server observes the closed stop channel, shuts down, Run returns nil.
SrvObserveStop ==
    /\ proc = "running"
    /\ srv = "serving"
    /\ stop = "closed"
    /\ srv' = "done"
    /\ UNCHANGED <<mainPc, procVars, registered, stop, coreVars,
                   crVars, clock, sigVars, evVars, histVars>>

\* srv.Run has returned an error.
ServerFailed == srv \in {"errBind", "errCrash"}

\* err != nil: dief("failed to launch API Server: %s", err)
SrvDief ==
    /\ proc = "running"
    /\ ServerFailed
    /\ Dief(MsgRunSrv)
    /\ UNCHANGED <<mainPc, registered, stop, coreVars, crVars, srv,
                   clock, sigVars, evVars, histVars>>

(***************************************************************************)
(* Environment: time and OS signals.                                       *)
(***************************************************************************)
\* One second passes.  Beyond MaxClock time advances only as far as a
\* pending sleep needs.
Tick ==
    /\ proc = "running"
    /\ \/ clock < MaxClock
       \/ crG = "sleeping" /\ clock < wakeAt
    /\ clock' = clock + 1
    /\ UNCHANGED <<mainPc, procVars, registered, stop, coreVars,
                   crVars, srv, sigVars, evVars, histVars>>

\* The OS delivers signal s once the relay of signal.Notify is installed: a
\* notified signal is sent to sigCh without blocking (dropped when the
\* buffer is full); any other signal is not relayed.
OsSignal ==
    \E s \in Signals :
        /\ proc = "running"
        /\ notified # {}
        /\ sigCount < MaxSignals
        /\ sigCount' = sigCount + 1
        /\ lastSig' = s
        /\ sigCh' = IF s \in notified /\ Len(sigCh) < SigChCap
                       THEN Append(sigCh, s)
                       ELSE sigCh
        /\ UNCHANGED <<mainPc, procVars, registered, stop, coreVars,
                       crVars, srv, clock, notified, evVars, histVars>>

(***************************************************************************)
(* Specifications.                                                         *)
(***************************************************************************)
MainStep ==
    \/ LoadConfig \/ NewLogger \/ ShowConfig \/ InitInformer \/ NewController
    \/ Endpoint \/ GoCoreStart
    \/ ApisixRoute \/ ApisixUpstream \/ ApisixService \/ ApisixTLS
    \/ GoDelayedStart \/ NewServer \/ GoServerRun
    \/ Notify \/ RecvSignal \/ CloseStop \/ LogExited

Next ==
    \/ LoadConfig \/ NewLogger \/ ShowConfig \/ InitInformer \/ NewController
    \/ Endpoint \/ GoCoreStart
    \/ ApisixRoute \/ ApisixUpstream \/ ApisixService \/ ApisixTLS
    \/ GoDelayedStart \/ NewServer \/ GoServerRun
    \/ Notify \/ RecvSignal \/ CloseStop \/ LogExited
    \/ ProcessExit
    \/ CoreStart \/ CoreObserveStop
    \/ CrWake \/ CrStart \/ CrObserveStop
    \/ DeliverEvent
    \/ SrvRunBegin \/ SrvCrash \/ SrvObserveStop \/ SrvDief
    \/ Tick \/ OsSignal

Spec == Init /\ [][Next]_vars

\* Every goroutine that can take a step eventually takes one, the process
\* exits once main has returned, and time passes.  Signals and failures are
\* the environment's and are under no fairness.
Fairness ==
    /\ WF_vars(MainStep)
    /\ WF_vars(ProcessExit)
    /\ WF_vars(CoreStart) /\ WF_vars(CoreObserveStop)
    /\ WF_vars(CrWake) /\ WF_vars(CrStart) /\ WF_vars(CrObserveStop)
    /\ WF_vars(SrvRunBegin) /\ WF_vars(SrvObserveStop) /\ WF_vars(SrvDief)
    /\ WF_vars(Tick)

FairSpec == Spec /\ Fairness

(***************************************************************************)
(* waitForSignal(stopCh) on its own: the function is entered with the      *)
(* channel its caller hands it, still open or already closed, while the    *)
(* core factory and the server, which observe the channel, are running.    *)
(***************************************************************************)
WaitInit ==
    /\ mainPc = "Notify"
    /\ stop \in {"open", "closed"}
    /\ clock \in 0..MaxClock
    /\ proc = "running"
    /\ exitCode = -1
    /\ stderr = << >>
    /\ registered = Kinds
    /\ coreG = "done" /\ coreF = "delivering"
    /\ crG = "sleeping" /\ crF = "idle"
    /\ wakeAt = WakeTime(0)
    /\ srv = "serving"
    /\ notified = {}
    /\ sigCh = << >>
    /\ sigCount = 0
    /\ lastSig = "-"
    /\ delivered = {}
    /\ unhandled = {}
    /\ recvEarly = FALSE
    /\ closedEarly = FALSE
    /\ sig = "-"
    /\ crStartStop = "-"

WaitNext ==
    \/ Notify \/ RecvSignal \/ CloseStop
    \/ OsSignal \/ Tick
    \/ CoreObserveStop \/ SrvObserveStop

WaitForSignalSpec == WaitInit /\ [][WaitNext]_vars

TypeOK ==
    /\ mainPc \in {MainFlow[i] : i \in 1..Len(MainFlow)} \cup {"returned"}
    /\ proc \in {"running", "exited"}
    /\ exitCode \in {-1, 0, 1, 2}
    /\ registered \subseteq Kinds
    /\ stop \in {"nil", "open", "closed"}
    /\ coreG \in {"none", "spawned", "done"}
    /\ coreF \in {"idle", "delivering", "stopped"}
    /\ crG \in {"none", "sleeping", "awake", "done"}
    /\ crF \in {"idle", "delivering", "stopped"}
    /\ srv \in {"none", "created", "spawned", "serving", "errBind", "errCrash", "done"}
    /\ clock \in 0..(MaxClock + Delay)
    /\ notified \subseteq Signals
    /\ Len(sigCh) <= SigChCap
    /\ sigCount \in 0..MaxSignals
    /\ lastSig \in Signals \cup {"-"}
    /\ sig \in Signals \cup {"-"}
    /\ delivered \subseteq Kinds /\ unhandled \subseteq delivered

(***************************************************************************)
(* Properties.                                                             *)
(***************************************************************************)
Range(q) == {q[i] : i \in 1..Len(q)}

\* The main flow has received its termination signal.
SignalReceived == mainPc \in {"CloseStop", "LogExited", "returned"}

\* C1: if stop is closed before the warm-up delay has elapsed, the delayed
\* goroutine never invokes SharedInformerFactory.Start (no Start after the
\* stop channel was closed).
C1_NoStartAfterEarlyCancel ==
    closedEarly => (crF = "idle" /\ crStartStop = "-")

\* C2: for every kind, once the informer factory serving the kind has been
\* started the handler of the kind is registered, and no event was ever
\* delivered for a kind with no handler registered.
C2_RegisteredBeforeDelivery ==
    /\ \A k \in Kinds : FactoryOf(k) # "idle" => k \in registered
    /\ unhandled = {}

C2_Witness ==
    /\ coreF = "delivering" /\ crF = "delivering"
    /\ \E k \in CrKinds : k \in delivered

\* C3: the custom-resource factory is never started while fewer than Delay
\* seconds have passed since process start.
C3_NoStartBeforeDelay ==
    crF # "idle" => clock >= Delay

C3_Witness ==
    crF = "delivering" /\ crStartStop = "open" /\ clock = Delay

\* C4: once the configuration or the logger diagnostic has been written the
\* process has exited with status 1, and no handler is registered, no
\* factory start or delayed start was launched, no server created.
C4_FatalInitNothingStarted ==
    (Range(stderr) \cap {MsgConfig, MsgLogging} # {}) =>
        /\ proc = "exited" /\ exitCode = 1
        /\ registered = {}
        /\ coreG = "none" /\ coreF = "idle"
        /\ crG = "none" /\ crF = "idle"
        /\ srv = "none"

C4_Witness ==
    proc = "exited" /\ exitCode = 1 /\ stderr = <<MsgConfig>>

C6_SignalLeadsToCleanExit ==
    SignalReceived ~>
        (ServerFailed \/ (stop = "closed" /\ proc = "exited" /\ exitCode = 0))

C6_Witness ==
    /\ proc = "exited" /\ exitCode = 0 /\ stop = "closed"
    /\ srv = "done" /\ lastSig \in TermSignals

\* C7: whenever creating the server failed or srv.Run returned an error, a
\* terminated process has exit status 1 and the server diagnostic on stderr.
C7_ServerErrorNeverIgnored ==
    /\ (MsgNewSrv \in Range(stderr)) => (proc = "exited" /\ exitCode = 1)
    /\ (proc = "exited" /\ ServerFailed) =>
            (exitCode = 1 /\ MsgRunSrv \in Range(stderr))

\* The diagnostics of the fatal startup failures.
FatalStartupMsgs ==
    {MsgConfig, MsgLogging, MsgShowCfg, MsgInformer, MsgNewSrv, MsgRunSrv}

\* C8 (as claimed): after any fatal-startup diagnostic, the server ones
\* included, no factory start was launched and no delayed start is pending.
C8_NoPartialStartup ==
    (proc = "exited" /\ Range(stderr) \cap FatalStartupMsgs # {}) =>
        /\ coreG = "none" /\ coreF = "idle"
        /\ crG \notin {"sleeping", "awake"} /\ crF = "idle"

\* C8 (amended): after a configuration, logger or kube-informer diagnostic
\* no factory start was launched and no delayed start exists; after a
\* server diagnostic the core factory start has been launched and the
\* delayed custom-resource start has been created.
C8_NoPartialStartupBeforeWatchers ==
    /\ (proc = "exited" /\
        Range(stderr) \cap {MsgConfig, MsgLogging, MsgShowCfg, MsgInformer} # {}) =>
            /\ coreG = "none" /\ coreF = "idle"
            /\ crG = "none" /\ crF = "idle"
    /\ (proc = "exited" /\ Range(stderr) \cap {MsgNewSrv, MsgRunSrv} # {}) =>
            /\ coreG # "none"
            /\ crG # "none"

C8_Witness ==
    /\ proc = "exited" /\ exitCode = 1 /\ stderr = <<MsgNewSrv>>
    /\ coreG = "spawned" /\ crG = "sleeping"

C10_StartedUnlessEarlySignal ==
    (mainPc = "Notify") ~> (crF # "idle" \/ recvEarly \/ ServerFailed)

\* C10 (amended): when startup has succeeded, the custom-resource factory is
\* eventually started unless the main flow receives a termination signal
\* first (before or after the delay elapses) or the server fails.
C10_StartedUnlessSignalled ==
    (mainPc = "Notify") ~> (crF # "idle" \/ SignalReceived \/ ServerFailed)

C10_Witness ==
    /\ crF = "delivering" /\ clock >= Delay
    /\ mainPc = "RecvSignal" /\ sigCount = 0 /\ srv = "serving"

\* The statements of Initializing, Starting and Running: everything up to
\* and including the wait for the signal.
UpToWait == {MainFlow[i] : i \in 1..IndexOf("RecvSignal")}

\* C11: stop is write-once: once closed it stays closed; it is closed only
\* by a step of the main flow at close(stopCh), after a SIGINT or SIGTERM
\* was taken from sigCh, a step that changes no background task; and it is
\* not closed while the main flow is in Initializing, Starting or Running.
C11_StopWriteOnce ==
    /\ [](mainPc \in UpToWait => stop # "closed")
    /\ [][ /\ (stop = "closed" => stop' = "closed")
           /\ (stop # "closed" /\ stop' = "closed") =>
                 /\ mainPc = "CloseStop" /\ mainPc' # mainPc
                 /\ sig \in TermSignals
                 /\ UNCHANGED <<coreVars, crVars, srv>>
         ]_vars

C11_Witness ==
    /\ stop = "closed" /\ sig \in TermSignals
    /\ coreF = "stopped" /\ srv = "done" /\ mainPc = "returned"

\* C12: once stop is closed, every background task that was started (the
\* core delivery loop, the custom-resource delivery loop, the server) has
\* observed it and stopped by the time the main flow has returned and the
\* process has ended: none is left that never observed the cancellation.
C12_StartedTasksObserveStop ==
    (proc = "exited" /\ exitCode = 0 /\ stop = "closed") =>
        /\ coreF # "delivering"
        /\ crF # "delivering"
        /\ srv # "serving"

\* C13 (as claimed): the custom-resource factory is never started while the
\* core factory has not been started.
C13_CoreStartedBeforeCr ==
    crF # "idle" => coreF # "idle"

\* C13 (amended): when the custom-resource factory is started, the endpoints
\* handler is registered and the goroutine that starts the core factory has
\* been launched (it may not have called Start yet).
C13_CoreLaunchedBeforeCr ==
    crF # "idle" => ("Endpoints" \in registered /\ coreG # "none")

C13_Witness ==
    /\ crF = "delivering" /\ clock >= Delay
    /\ "Endpoints" \in registered /\ coreG = "done" /\ coreF = "delivering"
    /\ mainPc = "RecvSignal"

\* C14: while the process runs, every statement of the main flow other than
\* the wait for the signal can be executed whatever the background tasks
\* have done, and from process start the main flow reaches the wait for
\* the signal unless a startup failure was reported (dief).
C14_MainFlowNeverBlocked ==
    /\ []((proc = "running" /\ mainPc \notin {"RecvSignal", "returned"})
             => ENABLED MainStep)
    /\ (mainPc = MainFlow[1]) ~> (mainPc = "RecvSignal" \/ stderr # << >>)

\* The wait is reached with no background task having taken a step and no
\* time having passed.
C14_Witness ==
    /\ mainPc = "RecvSignal" /\ proc = "running" /\ clock = 0
    /\ coreG = "spawned" /\ coreF = "idle"
    /\ crG = "sleeping" /\ crF = "idle"
    /\ srv = "spawned"

====
